---- MODULE Spec2Model ----
(***************************************************************************)
(* Typify 2.0.0 (src/typify-v-2.0.0.js): a process-wide typing animator    *)
(* driven by setTimeout / setInterval callbacks; src/typify.js (1.0.0) is  *)
(* the same object without the animation class, the colour and the         *)
(* duration.  The model keeps the                                          *)
(* fields of the Typify object, the part of the DOM it touches (the one    *)
(* target element and the cursor span) and the host's timer table.         *)
(* Time is counted in ticks of one millisecond; a timer whose remaining    *)
(* time is 0 is due and must run before time moves on.                     *)
(***************************************************************************)
EXTENDS Integers, Sequences, FiniteSets, Bags, TLC

\* ---------------------------------------------------------------- bounds
MaxLen == 2
MaxCalls == 2
MaxTimers == 2

\* -------------------------------------------------------------- inputs
Word == <<"a", "b", "c", "d">>
Texts == {SubSeq(Word, 1, n) : n \in 0..MaxLen} \cup {<<"b">>}
Speeds == {0, 1, 2}
Delays == {0, 1}
MaxSpeed == CHOOSE m \in Speeds : \A x \in Speeds : x <= m
MaxDelay == CHOOSE m \in Delays : \A x \in Delays : x <= m
\* the clock `now` (time since the last call) stops counting at a horizon:
\* a whole reveal pass in a session of one init, a start delay and a tick otherwise
MaxClock == MaxDelay + MaxLen * MaxSpeed + 1
CallClock == MaxDelay + MaxSpeed + 1
\* two whole passes of a looping session
LoopClock == 2 * (MaxDelay + (MaxLen + 1) * MaxSpeed) + 1

Null == "null"
Node == "node"
Cursor == "typify-cursor"
Missing == "#missing"

\* 'Hello, TurboChat!'
HelloText == <<"H", "e", "l", "l", "o", ",", " ", "T", "u", "r", "b", "o", "C", "h", "a", "t", "!">>

defaultOptions ==
  [selector |-> "#typing-demo", text |-> HelloText, speed |-> 100, loop |-> FALSE,
   cursor |-> TRUE, cursorStyle |-> "|", delay |-> 500, animation |-> "none",
   color |-> "#e0e0e0", animationDuration |-> 1000]

\* { ...base, ...over }
Merge(base, over) ==
  [k \in (DOMAIN base) \cup (DOMAIN over) |-> IF k \in DOMAIN over THEN over[k] ELSE base[k]]

\* JavaScript truthiness of newConfig[k] (an absent key reads undefined)
Truthy(p, k) ==
  /\ k \in DOMAIN p
  /\ CASE k = "text" -> p[k] # <<>>
       [] k \in {"speed", "delay", "animationDuration"} -> p[k] # 0
       [] k \in {"loop", "cursor"} -> p[k]
       [] OTHER -> p[k] # ""

\* this.config[k]: a property the object lacks reads undefined
\* (a timer delay of undefined is 0, undefined prints as "undefined")
Num(cfg, k) == IF k \in DOMAIN cfg THEN cfg[k] ELSE 0
Str(cfg, k) == IF k \in DOMAIN cfg THEN cfg[k] ELSE "undefined"

\* document.querySelector: the page holds the one element '#typing-demo'
querySelector(sel) == IF sel = "#typing-demo" THEN Node ELSE Null

\* `typify-animation-${name}`
AnimationTag(name) == <<"typify-animation-", name>>
NoClass == <<>>

\* `${n}ms`; the unset style property is the empty string
Ms(n) == <<n, "ms">>
Unset == <<>>

VARIABLES
  config, isInitialized, typingInterval, currentIndex, text, element,
  cursorElement, animationClass,
  children, classList, styleColor, styleAnimationDuration, cursorText,
  timeouts, intervals,
  threw, lastCall, fresh, now, ncalls

progVars == <<config, isInitialized, typingInterval, currentIndex, text, element,
              cursorElement, animationClass,
              children, classList, styleColor, styleAnimationDuration, cursorText,
              timeouts, intervals>>
histVars == <<threw, lastCall, fresh, now, ncalls>>
vars == <<progVars, histVars>>

\* the Typify object, the target element and the timer table as one value
State ==
  [config |-> config, isInitialized |-> isInitialized, typingInterval |-> typingInterval,
   currentIndex |-> currentIndex, text |-> text, element |-> element,
   cursorElement |-> cursorElement, animationClass |-> animationClass,
   children |-> children, classList |-> classList, styleColor |-> styleColor,
   styleAnimationDuration |-> styleAnimationDuration, cursorText |-> cursorText,
   timeouts |-> timeouts, intervals |-> intervals, threw |-> FALSE]

Throw(s) == [s EXCEPT !.threw = TRUE]
Then(s, F(_)) == IF s.threw THEN s ELSE F(s)

\* ------------------------------------------------------------ host timers
NoTimeouts == SetToBag({})

setTimeout(s, d) == [s EXCEPT !.timeouts = @ (+) SetToBag({d})]

LiveIds(s) == {t.id : t \in s.intervals}

NewId(s) ==
  CHOOSE i \in 1..(Cardinality(s.intervals) + 2) :
    /\ i \notin LiveIds(s) \cup {s.typingInterval}
    /\ \A j \in 1..(i - 1) : j \in LiveIds(s) \cup {s.typingInterval}

clearInterval(s, id) == [s EXCEPT !.intervals = {t \in @ : t.id # id}]

\* --------------------------------------------------------------- Typify
startTyping(s) ==
  LET id == NewId(s)
  IN [s EXCEPT !.intervals = @ \cup {[id |-> id, period |-> Num(s.config, "speed"), rem |-> Num(s.config, "speed")]},
               !.typingInterval = id]

ClassRemove(s, c) == IF c = NoClass THEN Throw(s) ELSE [s EXCEPT !.classList = @ \ {c}]
ClassAdd(s, c) == IF c = NoClass THEN Throw(s) ELSE [s EXCEPT !.classList = @ \cup {c}]

Detach(seq) == SelectSeq(seq, LAMBDA x : x # Cursor)

appendCursor(s) ==
  IF s.cursorElement = Null THEN Throw(s)
  ELSE [s EXCEPT !.children = Append(Detach(@), Cursor)]

resetTyping(s) ==
  LET s1 == [s EXCEPT !.currentIndex = 0]
  IN IF s1.element = Null THEN Throw(s1)
     ELSE LET s2 == [s1 EXCEPT !.children = <<>>]
              s3 == IF Str(s2.config, "animation") # "none"
                    THEN Then(ClassRemove(s2, s2.animationClass),
                              LAMBDA u : ClassAdd(u, u.animationClass))
                    ELSE s2
          IN Then(s3, LAMBDA u : IF Truthy(u.config, "cursor") THEN appendCursor(u) ELSE u)

\* element.insertBefore(node, cursorElement)
insertBefore(seq, x) ==
  LET i == CHOOSE j \in 1..Len(seq) : seq[j] = Cursor
  IN SubSeq(seq, 1, i - 1) \o <<x>> \o SubSeq(seq, i, Len(seq))

\* the character is appended to the target whether or not a cursor node is there
revealChar_append(s) ==
  LET char == s.text[s.currentIndex + 1]
  IN IF s.element = Null THEN Throw(s)
     ELSE [s EXCEPT !.children = Append(@, char), !.currentIndex = @ + 1]

revealChar(s) ==
  LET char == s.text[s.currentIndex + 1]
  IN IF s.element = Null THEN Throw(s)
     ELSE IF s.cursorElement # Null
          THEN IF \E j \in 1..Len(s.children) : s.children[j] = Cursor
               THEN [s EXCEPT !.children = insertBefore(@, char), !.currentIndex = @ + 1]
               ELSE Throw(s)
          ELSE [s EXCEPT !.children = Append(@, char), !.currentIndex = @ + 1]

\* the loop restart calls startTyping at once instead of after the delay
tick_restartNow(s) ==
  IF s.currentIndex < Len(s.text)
  THEN revealChar(s)
  ELSE LET s1 == clearInterval(s, s.typingInterval)
       IN IF Truthy(s1.config, "loop")
          THEN Then(resetTyping(s1), LAMBDA u : startTyping(u))
          ELSE s1

\* the setInterval callback of startTyping
tick(s) ==
  IF s.currentIndex < Len(s.text)
  THEN revealChar(s)
  ELSE LET s1 == clearInterval(s, s.typingInterval)
       IN IF Truthy(s1.config, "loop")
          THEN Then(resetTyping(s1), LAMBDA u : setTimeout(u, Num(u.config, "delay")))
          ELSE s1

createCursor(s) ==
  LET s1 == [s EXCEPT !.cursorElement = Node, !.cursorText = Str(s.config, "cursorStyle")]
  IN IF s1.element = Null THEN Throw(s1)
     ELSE [s1 EXCEPT !.children = Append(Detach(@), Cursor)]

removeCursor(s) ==
  IF s.element = Null \/ ~(\E j \in 1..Len(s.children) : s.children[j] = Cursor)
  THEN Throw(s)
  ELSE [s EXCEPT !.children = Detach(@), !.cursorElement = Null]

init(s, c) ==
  LET s1 == [s EXCEPT !.config = Merge(defaultOptions, c)]
      s2 == [s1 EXCEPT !.element = querySelector(Str(s1.config, "selector"))]
  IN IF s2.element = Null THEN s2
     ELSE LET s3 == [s2 EXCEPT !.styleColor = s2.config.color,
                               !.text = s2.config.text,
                               !.currentIndex = 0,
                               !.children = <<>>]
              s4 == IF s3.config.animation # "none"
                    THEN [s3 EXCEPT !.animationClass = AnimationTag(s3.config.animation),
                                    !.classList = @ \cup {AnimationTag(s3.config.animation)},
                                    !.styleAnimationDuration = Ms(s3.config.animationDuration)]
                    ELSE s3
              s5 == IF s4.config.cursor THEN createCursor(s4) ELSE s4
              s6 == setTimeout(s5, s5.config.delay)
          IN [s6 EXCEPT !.isInitialized = TRUE]

updateText(s, newConfig) ==
  IF Truthy(newConfig, "text") /\ newConfig.text # s.text
  THEN Then(resetTyping([s EXCEPT !.text = newConfig.text]),
            LAMBDA u : setTimeout(clearInterval(u, u.typingInterval), Num(u.config, "delay")))
  ELSE s

\* the speed change restarts the pass from the first character
updateSpeed_reset(s, newConfig) ==
  IF Truthy(newConfig, "speed")
  THEN Then(resetTyping(s), LAMBDA u : startTyping(clearInterval(u, u.typingInterval)))
  ELSE s

updateSpeed(s, newConfig) ==
  IF Truthy(newConfig, "speed")
  THEN startTyping(clearInterval(s, s.typingInterval))
  ELSE s

updateCursor(s, newConfig) ==
  IF "cursor" \in DOMAIN newConfig
  THEN IF newConfig.cursor /\ s.cursorElement = Null THEN createCursor(s)
       ELSE IF ~newConfig.cursor /\ s.cursorElement # Null THEN removeCursor(s)
       ELSE s
  ELSE s

updateCursorStyle(s, newConfig) ==
  IF Truthy(newConfig, "cursorStyle") /\ s.cursorElement # Null
  THEN [s EXCEPT !.cursorText = Str(s.config, "cursorStyle")]
  ELSE s

\* s.config is already the merged configuration when the comparison is made
updateAnimation(s, newConfig) ==
  IF Truthy(newConfig, "animation") /\ newConfig.animation # Str(s.config, "animation")
  THEN LET s1 == IF s.animationClass # NoClass THEN ClassRemove(s, s.animationClass) ELSE s
       IN IF newConfig.animation # "none"
          THEN Then([s1 EXCEPT !.animationClass = AnimationTag(newConfig.animation)],
                    LAMBDA u : [ClassAdd(u, u.animationClass) EXCEPT
                                  !.styleAnimationDuration = Ms(Num(u.config, "animationDuration"))])
          ELSE [s1 EXCEPT !.animationClass = NoClass, !.styleAnimationDuration = Unset]
  ELSE s

updateColor(s, newConfig) ==
  IF Truthy(newConfig, "color")
  THEN IF s.element = Null THEN Throw(s) ELSE [s EXCEPT !.styleColor = Str(s.config, "color")]
  ELSE s

updateAnimationDuration(s, newConfig) ==
  IF Truthy(newConfig, "animationDuration")
  THEN IF s.element = Null THEN Throw(s)
       ELSE [s EXCEPT !.styleAnimationDuration = Ms(Num(s.config, "animationDuration"))]
  ELSE s

updateConfigBody(s, newConfig) ==
  LET s0 == [s EXCEPT !.config = Merge(s.config, newConfig)]
      s1 == updateText(s0, newConfig)
      s2 == Then(s1, LAMBDA u : updateSpeed(u, newConfig))
      s3 == Then(s2, LAMBDA u : updateCursor(u, newConfig))
      s4 == Then(s3, LAMBDA u : updateCursorStyle(u, newConfig))
      s5 == Then(s4, LAMBDA u : updateAnimation(u, newConfig))
      s6 == Then(s5, LAMBDA u : updateColor(u, newConfig))
  IN Then(s6, LAMBDA u : updateAnimationDuration(u, newConfig))

\* updateConfig without its isInitialized guard
updateConfig_noGuard(s, newConfig) == updateConfigBody(s, newConfig)

updateConfig(s, newConfig) ==
  IF ~s.isInitialized THEN s ELSE updateConfigBody(s, newConfig)

destroyBody(s) ==
  LET s1 == clearInterval(s, s.typingInterval)
  IN IF s1.element = Null THEN Throw(s1)
     ELSE Then(ClassRemove([s1 EXCEPT !.children = <<>>], s1.animationClass),
               LAMBDA u : [u EXCEPT !.animationClass = NoClass, !.isInitialized = FALSE])

\* destroy without its isInitialized guard
destroy_noGuard(s) == destroyBody(s)

destroy(s) ==
  IF ~s.isInitialized THEN s ELSE destroyBody(s)

\* ------------------------------------------------------- call arguments
Empty == [k \in {} |-> k]

\* init arguments of a whole session: the text, speed and delay are always given
InitBase == [text |-> <<"a", "b">>, speed |-> 1, delay |-> 1]

InitConfigs ==
  {Merge(InitBase, Merge(Merge(l, c), a)) :
     l \in {Empty, [loop |-> TRUE]},
     c \in {Empty, [cursor |-> FALSE]},
     a \in {Empty, [animation |-> "fade"]}}
  \cup {Merge(InitBase, [selector |-> Missing])}

\* init arguments of a session that is one init call
RevealConfigs ==
  {Merge([text |-> t, speed |-> sp, delay |-> d], Merge(Merge(l, c), a)) :
     t \in Texts, sp \in Speeds, d \in Delays,
     l \in {Empty, [loop |-> TRUE]},
     c \in {Empty, [cursor |-> FALSE]},
     a \in {Empty, [animation |-> "fade"]}}

Partials ==
  {[text |-> <<>>], [text |-> <<"b">>], [speed |-> 0], [speed |-> 2],
   [text |-> <<"b">>, speed |-> 2],
   [cursor |-> TRUE], [cursor |-> FALSE], [loop |-> TRUE],
   [animation |-> "fade"], [animation |-> "none"],
   [color |-> "red"], [cursorStyle |-> "_"], [animationDuration |-> 2000]}

\* ---------------------------------------------------------------- steps
\* the Typify object as the script creates it, before any call
Pristine ==
  [config |-> Empty, isInitialized |-> FALSE, typingInterval |-> 0,
   currentIndex |-> 0, text |-> <<>>, element |-> Null,
   cursorElement |-> Null, animationClass |-> NoClass,
   children |-> <<>>, classList |-> {}, styleColor |-> "",
   styleAnimationDuration |-> Unset, cursorText |-> "",
   timeouts |-> NoTimeouts, intervals |-> {}, threw |-> FALSE]

Init ==
  /\ config = Empty
  /\ isInitialized = FALSE
  /\ typingInterval = 0
  /\ currentIndex = 0
  /\ text = <<>>
  /\ element = Null
  /\ cursorElement = Null
  /\ animationClass = NoClass
  /\ children = <<>>
  /\ classList = {}
  /\ styleColor = ""
  /\ styleAnimationDuration = Unset
  /\ cursorText = ""
  /\ timeouts = NoTimeouts
  /\ intervals = {}
  /\ threw = FALSE
  /\ lastCall = "none"
  /\ fresh = FALSE
  /\ now = 0
  /\ ncalls = 0

\* the timer table is explored up to MaxTimers armed timers
Fits(r) == Cardinality(r.intervals) + BagCardinality(r.timeouts) <= MaxTimers

Apply(r) ==
  /\ Fits(r)
  /\ config' = r.config
  /\ isInitialized' = r.isInitialized
  /\ typingInterval' = r.typingInterval
  /\ currentIndex' = r.currentIndex
  /\ text' = r.text
  /\ element' = r.element
  /\ cursorElement' = r.cursorElement
  /\ animationClass' = r.animationClass
  /\ children' = r.children
  /\ classList' = r.classList
  /\ styleColor' = r.styleColor
  /\ styleAnimationDuration' = r.styleAnimationDuration
  /\ cursorText' = r.cursorText
  /\ timeouts' = r.timeouts
  /\ intervals' = r.intervals
  /\ threw' = r.threw

Called(op) ==
  /\ ncalls < MaxCalls
  /\ ncalls' = ncalls + 1
  /\ lastCall' = op
  /\ fresh' = TRUE
  /\ now' = 0

CallInit(c) == Apply(init(State, c)) /\ Called("init")

CallUpdateConfig(p) == Apply(updateConfig(State, p)) /\ Called("updateConfig")

CallDestroy == Apply(destroy(State)) /\ Called("destroy")

\* a due one-shot callback runs: () => this.startTyping()
FireTimeout ==
  /\ BagIn(0, timeouts)
  /\ Apply(startTyping([State EXCEPT !.timeouts = @ (-) SetToBag({0})]))
  /\ fresh' = FALSE
  /\ UNCHANGED <<lastCall, now, ncalls>>

Rearm(r, t) ==
  [r EXCEPT !.intervals = {IF u.id = t.id THEN [u EXCEPT !.rem = u.period] ELSE u : u \in @}]

\* a due ticker runs its callback and stays armed unless the callback cleared it
FireInterval(t) ==
  /\ t \in intervals
  /\ t.rem = 0
  /\ Apply(Rearm(tick(State), t))
  /\ fresh' = FALSE
  /\ UNCHANGED <<lastCall, now, ncalls>>

Due == BagIn(0, timeouts) \/ \E t \in intervals : t.rem = 0

ShiftBag(b) == [x \in {y - 1 : y \in DOMAIN b} |-> b[x + 1]]

\* one millisecond passes
Advance(horizon) ==
  /\ ~Due
  /\ timeouts' = ShiftBag(timeouts)
  /\ intervals' = {[t EXCEPT !.rem = @ - 1] : t \in intervals}
  /\ now' = IF now < horizon THEN now + 1 ELSE now
  /\ fresh' = FALSE
  /\ UNCHANGED <<config, isInitialized, typingInterval, currentIndex, text, element,
                 cursorElement, animationClass, children, classList, styleColor,
                 styleAnimationDuration, cursorText, threw, lastCall, ncalls>>

Next ==
  \/ \E c \in InitConfigs : CallInit(c)
  \/ \E p \in Partials : CallUpdateConfig(p)
  \/ CallDestroy
  \/ FireTimeout
  \/ \E t \in intervals : FireInterval(t)
  \/ Advance(CallClock)

Spec == Init /\ [][Next]_vars

\* a session that is one init call on the fresh animator and the timers it arms
RevealInit(c) == ncalls = 0 /\ CallInit(c)

NextReveal ==
  \/ \E c \in RevealConfigs : RevealInit(c)
  \/ FireTimeout
  \/ \E t \in intervals : FireInterval(t)
  \/ Advance(MaxClock)

SpecReveal == Init /\ [][NextReveal]_vars

\* the same session watched over two passes of a loop
NextLoop ==
  \/ \E c \in RevealConfigs : RevealInit(c)
  \/ FireTimeout
  \/ \E t \in intervals : FireInterval(t)
  \/ Advance(LoopClock)

SpecLoop == Init /\ [][NextLoop]_vars

\* ------------------------------------------------------------ properties
Shown == Truthy(config, "cursor")
CursorNodes(seq) == Len(seq) - Len(Detach(seq))
Revealed == Detach(children)
IsCall(ops) == ncalls' = ncalls + 1 /\ lastCall' \in ops
NoTimers == intervals = {} /\ timeouts = NoTimeouts

\* C1: whatever init, updateConfig and destroy calls and timer firings have
\* happened, at most one repeating reveal ticker is armed.
C1_AtMostOneTicker == Cardinality(intervals) <= 1

\* C2: in a session that is one successful non-looping init, once
\* delay + length(text) * speed milliseconds have passed and the callbacks due by
\* then have run, the target holds the characters of text in order followed by
\* the cursor node when the cursor is shown, and it holds just that from then on.
C2_RevealDone ==
  /\ lastCall = "init" /\ isInitialized /\ ~Truthy(config, "loop")
  /\ now >= config.delay + Len(config.text) * config.speed
  /\ (now > config.delay + Len(config.text) * config.speed \/ ~Due)

C2_RevealComplete ==
  C2_RevealDone => children = config.text \o (IF Shown THEN <<Cursor>> ELSE <<>>)

C2_Witness ==
  /\ C2_RevealDone /\ Shown /\ Len(config.text) = MaxLen /\ config.speed > 0
  /\ config.delay > 0 /\ intervals = {}

\* C3: right after an init call whose selector resolves to no node the animator
\* is not initialized and that call armed no timer.
C3_FailedInitUninitialized ==
  [][(IsCall({"init"}) /\ element' = Null)
       => (~isInitialized' /\ timeouts' = timeouts /\ intervals' = intervals)]_vars

\* C4: destroy on an initialized animator leaves no ticker and no pending
\* one-shot callback, an empty target, no animation tag and initialized = false.
C4_DestroyTearsDown ==
  [][(isInitialized /\ IsCall({"destroy"}))
       => (intervals' = {} /\ timeouts' = NoTimeouts /\ children' = <<>>
           /\ classList' = {} /\ animationClass' = NoClass /\ ~isInitialized')]_vars

\* C5: from every reachable state a second destroy right after a destroy leaves
\* the state the first one left (and ends the way the first one ended).
C5_DestroyIdempotent ==
  destroy([destroy(State) EXCEPT !.threw = FALSE]) = destroy(State)

C5_Witness ==
  lastCall = "destroy" /\ fresh /\ ~isInitialized /\ timeouts # NoTimeouts

\* C6: an updateConfig or destroy call made while initialized is false changes
\* no field of the animator, no timer and nothing of the target.
C6_UninitNoOp ==
  [][(~isInitialized /\ IsCall({"updateConfig", "destroy"})) => UNCHANGED progVars]_vars

C6_Witness ==
  lastCall = "updateConfig" /\ fresh /\ ~isInitialized /\ config # Empty

\* C7: an updateConfig on an initialized animator that supplies a text other than
\* the current one sets revealedCount to 0, cancels the ticker and empties the
\* revealed content.
C7_TextChangeResets ==
  [][(isInitialized /\ element # Null
      /\ \E p \in Partials :
           /\ DOMAIN p = {"text"} /\ p.text # text
           /\ CallUpdateConfig(p))
       => (currentIndex' = 0 /\ Detach(children') = <<>> /\ intervals' = {})]_vars

\* C8: an updateConfig that changes only the speed during a reveal pass keeps
\* revealedCount and the content and leaves one ticker of the new period armed.
C8_SpeedChangeRestarts ==
  [][(isInitialized /\ Cardinality(intervals) = 1 /\ typingInterval \in LiveIds(State)
      /\ \E p \in Partials :
           /\ DOMAIN p = {"speed"} /\ p.speed # config.speed
           /\ CallUpdateConfig(p))
       => (/\ currentIndex' = currentIndex /\ children' = children
           /\ \E t \in intervals' :
                intervals' = {t} /\ t.period = config'.speed /\ t.rem = config'.speed)]_vars

\* C9: the cursor handle is set exactly when showCursor and initialized hold.
C9_CursorIffShown == (cursorElement # Null) <=> (isInitialized /\ Shown)

\* C10: on an initialized animator with a target, turning showCursor off leaves no
\* cursor node in the target and turning it on leaves exactly one.
C10_CursorToggle ==
  (isInitialized /\ element # Null) =>
     \A b \in BOOLEAN :
       (b # Shown) =>
          CursorNodes(updateConfig(State, [cursor |-> b]).children) = (IF b THEN 1 ELSE 0)

\* C11: in every reachable state revealedCount lies between 0 and the length of
\* the configuration's text.
C11_CountWithinConfigText ==
  /\ 0 <= currentIndex
  /\ currentIndex <= (IF "text" \in DOMAIN config THEN Len(config.text) ELSE 0)

\* C12: a step leaves revealedCount as it is, or a reveal tick raises it by one,
\* or it becomes 0 in a successful init, in an updateConfig that changes the
\* text, or in the tick that finds a looping pass complete.
TickStep == \E t \in intervals : FireInterval(t)

C12_CountSteps ==
  [][\/ currentIndex' = currentIndex
     \/ /\ currentIndex' = currentIndex + 1
        /\ TickStep /\ currentIndex < Len(text)
     \/ /\ currentIndex' = 0
        /\ \/ IsCall({"init"}) /\ element' # Null
           \/ IsCall({"updateConfig"}) /\ text' # text
           \/ TickStep /\ currentIndex = Len(text) /\ Truthy(config, "loop")]_vars

C12_Witness ==
  /\ ncalls = 1 /\ lastCall = "init" /\ Truthy(config, "loop")
  /\ typingInterval # 0 /\ intervals = {} /\ timeouts # NoTimeouts
  /\ currentIndex = 0 /\ Revealed = <<>>

\* C13 (as claimed): in a looping session time never passes while the target
\* holds the whole text (the content is cleared at the instant the last character
\* is revealed), and for a two-character text with a step interval of two units
\* and a start delay of one unit (10 ms and 5 ms) the target is empty at 4 (20 ms),
\* holds the first character at 5 (25 ms) and both at 7 (35 ms).
LoopSession ==
  /\ lastCall = "init" /\ isInitialized /\ Truthy(config, "loop")
  /\ ~Due /\ now < LoopClock

C13_ClearWithLastChar ==
  (LoopSession /\ config.text # <<>> /\ config.speed > 0) =>
     /\ Revealed # config.text
     /\ (Len(config.text) = 2 /\ config.speed = 2 /\ config.delay = 1) =>
           /\ (now = 4 => Revealed = <<>>)
           /\ (now = 5 => Revealed = SubSeq(config.text, 1, 1))
           /\ (now = 7 => Revealed = config.text)

\* C13 (amended): with loop = true a pass lasts delay + (length + 1) * speed: its
\* k-th character is revealed delay + k * speed after the pass began, the whole
\* text stays for one step interval, the tick after the last character clears the
\* content, and the next pass begins at that instant with a fresh start delay.
PassLength == config.delay + (Len(config.text) + 1) * config.speed

ShownAt(phase) ==
  IF phase < config.delay \/ config.speed = 0 THEN 0
  ELSE IF (phase - config.delay) \div config.speed > Len(config.text)
       THEN Len(config.text)
       ELSE (phase - config.delay) \div config.speed

C13_LoopTimeline ==
  (LoopSession /\ PassLength > 0) =>
     /\ Revealed = SubSeq(config.text, 1, ShownAt(now % PassLength))
     /\ children = Revealed \o (IF Shown THEN <<Cursor>> ELSE <<>>)

C13_Witness ==
  /\ LoopSession /\ config.speed > 0 /\ config.delay > 0 /\ Len(config.text) = MaxLen
  /\ now = PassLength + config.delay + config.speed
  /\ Revealed = SubSeq(config.text, 1, 1)

\* C14: an updateConfig on an initialized animator that supplies an animation
\* other than the current one leaves the target with the new animation's tag
\* only and activeAnimationTag equal to it, or with no tag, no activeAnimationTag
\* and no duration setting when the new animation is none.
TagOf(name) == IF name = "none" THEN NoClass ELSE AnimationTag(name)

C14_AnimationChangeApplied ==
  [][\A p \in Partials :
       (/\ isInitialized /\ element # Null
        /\ DOMAIN p = {"animation"} /\ p.animation # config.animation
        /\ CallUpdateConfig(p))
       => /\ animationClass' = TagOf(p.animation)
          /\ classList' = {TagOf(p.animation)} \ {NoClass}
          /\ (p.animation = "none" => styleAnimationDuration' = Unset)]_vars

\* C15: right after a destroy that completed, init(c) with a resolvable target
\* gives what init(c) gives on the never-initialized animator: the same config,
\* revealedCount, cursor handle, animation tag, target content and classes, and
\* the same armed timers (so the same reveal pass follows).
SameSession(a, b) ==
  /\ a.config = b.config /\ a.isInitialized = b.isInitialized
  /\ a.currentIndex = b.currentIndex /\ a.text = b.text
  /\ a.cursorElement = b.cursorElement /\ a.animationClass = b.animationClass
  /\ a.children = b.children /\ a.classList = b.classList
  /\ a.timeouts = b.timeouts /\ a.intervals = b.intervals

C15_ReinitAsFresh ==
  (lastCall = "destroy" /\ fresh /\ ~isInitialized) =>
     \A c \in InitConfigs :
        querySelector(Merge(defaultOptions, c).selector) # Null
          => SameSession(init(State, c), init(Pristine, c))

\* C16: on an initialized animator, an updateConfig call that changes both text
\* and speed leaves the same content, revealedCount and armed timers as the
\* text change alone, with the new interval stored: no ticker is armed before
\* the fresh start delay has passed.
C16_TextAndSpeedAsText ==
  [][\A p \in Partials :
       (/\ isInitialized /\ element # Null
        /\ DOMAIN p = {"text", "speed"}
        /\ p.text # text /\ p.speed # Num(config, "speed")
        /\ CallUpdateConfig(p))
       => LET q == updateConfig(State, [text |-> p.text])
          IN  /\ intervals' = q.intervals
              /\ timeouts' = q.timeouts
              /\ currentIndex' = q.currentIndex
              /\ children' = q.children
              /\ config' = Merge(q.config, p)]_vars

\* C17: with loop = false and only init/updateConfig calls made, the tick that
\* finds revealedCount = length(text) ends the session: after it no ticker and
\* no one-shot callback is armed, and the animator stays initialized.
C17_CompletionTickQuiesces ==
  [][(/\ TickStep
      /\ lastCall \in {"init", "updateConfig"}
      /\ isInitialized /\ element # Null
      /\ ~Truthy(config, "loop")
      /\ currentIndex = Len(text))
     => (intervals' = {} /\ timeouts' = NoTimeouts /\ isInitialized')]_vars

\* C18: while initialized is false, a timer callback (start delay, loop restart
\* or tick) changes neither the target's content nor revealedCount.
C18_NoRevealWhileUninitialized ==
  [][(~isInitialized /\ ncalls' = ncalls)
     => (children' = children /\ currentIndex' = currentIndex)]_vars

\* C19: after a successful init, as long as only updateConfig calls follow and
\* less than the start delay has passed since init, no ticker is armed and no
\* character is shown.
C19_NothingBeforeStartDelay ==
  [][\A p \in Partials :
       (/\ lastCall = "init" /\ isInitialized /\ element # Null
        /\ now < Num(config, "delay")
        /\ CallUpdateConfig(p))
       => (intervals' = {} /\ Detach(children') = <<>>)]_vars

\* C20: in every state with initialized = true and a resolved target, the
\* revealed characters are exactly the first revealedCount characters of the
\* current text, and an attached cursor node is the last child.
InOrder ==
  /\ currentIndex <= Len(text)
  /\ Revealed = SubSeq(text, 1, currentIndex)
  /\ CursorNodes(children) > 0 => children = Revealed \o <<Cursor>>

C20_RevealedIsPrefix ==
  (isInitialized /\ element # Null) => InOrder

\* the same order property over the states whose last call is not destroy
InOrderWithoutDestroy ==
  (isInitialized /\ element # Null /\ lastCall # "destroy") => InOrder
====
